---- MODULE Spec2Model ----
(***************************************************************************)
(* Blue Shield Pro: the order pipeline over the SQLite store.              *)
(*                                                                         *)
(* The store is one record `db` of tables; a table is a sequence of rows   *)
(* and a row's id is its index (INTEGER PRIMARY KEY AUTOINCREMENT, no row  *)
(* is ever physically deleted).  Every Repository method is an operator    *)
(* from a store to a result [ok, err, db, id]: on a constraint violation   *)
(* `db` is the store as the failing statement left it, which is what a     *)
(* caller outside a transaction keeps and what withTransaction discards.   *)
(*                                                                         *)
(* better-sqlite3 is synchronous and the server is one Node process, so a  *)
(* handler runs without interruption up to its first `await`.              *)
(***************************************************************************)
EXTENDS Integers, Sequences, FiniteSets, TLC

\* ------------------------------------------------------------------------
\* Bounds of the model
\* ------------------------------------------------------------------------
\* stock of the seeded product (1000 in the source, scaled down)
SeedStock == 2
\* largest quantity a caller asks for
MaxQty == 2
\* rows per table
MaxRows == 2
\* POST /api/checkout handlers suspended at the same time
NReq == 2
\* successful logins audited before the model stops starting new ones
MaxLogins == 2

\* ------------------------------------------------------------------------
\* Program constants
\* ------------------------------------------------------------------------
\* preco_unitario of the seeded product
SeedPrice == 299
\* produto.preco_unitario as overwritten by POST /api/checkout
ForcedPrice == 269
SKU == "BLUESHIELD-PRO-001"
Null == "NULL"
\* no row: what .get() returns when nothing matches
NoRow == 0
\* enviarEmailBrevo calls of one checkout: to the customer and to the admin
EmailsPerCheckout == 2
\* failed attempts already counted at which a further failure blocks
BlockAt == 4

OrderStatus ==
    {"pendente", "aguardando_pagamento", "pago", "processando",
     "enviado", "entregue", "cancelado", "reembolsado"}

\* ------------------------------------------------------------------------
\* Inputs
\* ------------------------------------------------------------------------
Emails == {"ana@x.co", "Ana@x.co", "bob@x.co"}
CPFs == {"111", "2-22"}
Quantities == (0 - 1) .. MaxQty
OrderNumbers == {"BSP-0001", "BSP-0002"}
CheckoutInputs == [email : Emails, cpf : CPFs, quantidade : Quantities]

\* email.toLowerCase().trim(); validateCheckout admits no whitespace
toLowerTrim(email) == IF email = "Ana@x.co" THEN "ana@x.co" ELSE email

\* cpf.replace(/\D/g, '')
cpfLimpo(cpf) == IF cpf = "2-22" THEN "222" ELSE cpf

\* ------------------------------------------------------------------------
\* Results of repository calls
\* ------------------------------------------------------------------------
Ok(d, id) == [ok |-> TRUE, err |-> "", db |-> d, id |-> id]
Fail(d, err) == [ok |-> FALSE, err |-> err, db |-> d, id |-> NoRow]

Min(S) == CHOOSE x \in S : \A y \in S : x <= y

Ids(table) == DOMAIN table

\* ------------------------------------------------------------------------
\* Repository: usuarios
\* ------------------------------------------------------------------------
getUserByEmail(d, email) ==
    LET hit == {i \in Ids(d.usuarios) :
                   d.usuarios[i].email = email /\ ~d.usuarios[i].deletado}
    IN IF hit = {} THEN NoRow ELSE Min(hit)

getUserByCPF(d, cpf) ==
    LET hit == {i \in Ids(d.usuarios) :
                   d.usuarios[i].cpf = cpf /\ ~d.usuarios[i].deletado}
    IN IF hit = {} THEN NoRow ELSE Min(hit)

getUserById(d, id) ==
    IF id \in Ids(d.usuarios) /\ ~d.usuarios[id].deletado THEN id ELSE NoRow

createUserNoUnique(d, email, cpf) ==
    LET row == [email |-> email, cpf |-> cpf, status |-> "ativo",
                tentativas_login |-> 0, deletado |-> FALSE]
    IN Ok([d EXCEPT !.usuarios = Append(@, row)], Len(d.usuarios) + 1)

\* INSERT INTO usuarios; email and cpf are UNIQUE over all rows, deleted or not
createUser(d, email, cpf) ==
    LET row == [email |-> email, cpf |-> cpf, status |-> "ativo",
                tentativas_login |-> 0, deletado |-> FALSE]
    IN IF \E i \in Ids(d.usuarios) : d.usuarios[i].email = email
       THEN Fail(d, "UNIQUE constraint failed: usuarios.email")
       ELSE IF \E i \in Ids(d.usuarios) : d.usuarios[i].cpf = cpf
       THEN Fail(d, "UNIQUE constraint failed: usuarios.cpf")
       ELSE Ok([d EXCEPT !.usuarios = Append(@, row)], Len(d.usuarios) + 1)

\* UPDATE usuarios SET ultimo_login = now, tentativas_login = 0
updateUserLogin(d, userId) ==
    IF userId \in Ids(d.usuarios)
    THEN Ok([d EXCEPT !.usuarios[userId].tentativas_login = 0], userId)
    ELSE Ok(d, NoRow)

\* UPDATE usuarios SET tentativas_login = tentativas_login + 1
incrementLoginAttempts(d, userId) ==
    IF userId \in Ids(d.usuarios)
    THEN Ok([d EXCEPT !.usuarios[userId].tentativas_login = @ + 1], userId)
    ELSE Ok(d, NoRow)

\* UPDATE usuarios SET status = 'bloqueado' WHERE id = ?
blockUser(d, userId) ==
    IF userId \in Ids(d.usuarios)
    THEN Ok([d EXCEPT !.usuarios[userId].status = "bloqueado"], userId)
    ELSE Ok(d, NoRow)

softDeleteUser(d, userId) ==
    IF userId \in Ids(d.usuarios)
    THEN Ok([d EXCEPT !.usuarios[userId].deletado = TRUE,
                      !.usuarios[userId].status = "inativo"], userId)
    ELSE Ok(d, NoRow)

\* ------------------------------------------------------------------------
\* Repository: enderecos
\* ------------------------------------------------------------------------
createAddressNoDemote(d, usuario_id, padrao) ==
    LET row == [usuario_id |-> usuario_id, padrao |-> padrao]
    IN IF usuario_id \notin Ids(d.usuarios)
       THEN Fail(d, "FOREIGN KEY constraint failed")
       ELSE Ok([d EXCEPT !.enderecos = Append(@, row)], Len(d.enderecos) + 1)

\* UPDATE enderecos SET padrao = 0 WHERE usuario_id = ?  (when padrao), then
\* INSERT INTO enderecos
createAddress(d, usuario_id, padrao) ==
    LET demoted == IF padrao = 1
                   THEN [d EXCEPT !.enderecos =
                           [i \in Ids(d.enderecos) |->
                              IF d.enderecos[i].usuario_id = usuario_id
                              THEN [d.enderecos[i] EXCEPT !.padrao = 0]
                              ELSE d.enderecos[i]]]
                   ELSE d
        row == [usuario_id |-> usuario_id, padrao |-> padrao]
    IN IF usuario_id \notin Ids(d.usuarios)
       THEN Fail(demoted, "FOREIGN KEY constraint failed")
       ELSE Ok([demoted EXCEPT !.enderecos = Append(@, row)],
               Len(d.enderecos) + 1)

getDefaultAddress(d, userId) ==
    LET hit == {i \in Ids(d.enderecos) :
                   d.enderecos[i].usuario_id = userId /\ d.enderecos[i].padrao = 1}
    IN IF hit = {} THEN NoRow ELSE Min(hit)

\* ------------------------------------------------------------------------
\* Repository: produtos
\* ------------------------------------------------------------------------
getProductBySku(d, sku) ==
    LET hit == {i \in Ids(d.produtos) :
                   /\ d.produtos[i].sku = sku
                   /\ ~d.produtos[i].deletado
                   /\ d.produtos[i].ativo = 1}
    IN IF hit = {} THEN NoRow ELSE Min(hit)

updateStockNoCheck(d, productId, quantidade) ==
    IF productId \notin Ids(d.produtos)
    THEN Ok(d, NoRow)
    ELSE Ok([d EXCEPT !.produtos[productId].estoque = @ - quantidade], productId)

\* UPDATE produtos SET estoque = estoque - ?; CHECK (estoque >= 0)
updateStock(d, productId, quantidade) ==
    IF productId \notin Ids(d.produtos)
    THEN Ok(d, NoRow)
    ELSE IF d.produtos[productId].estoque - quantidade < 0
    THEN Fail(d, "CHECK constraint failed: estoque >= 0")
    ELSE Ok([d EXCEPT !.produtos[productId].estoque = @ - quantidade], productId)

\* ------------------------------------------------------------------------
\* Repository: pedidos, pedido_itens, pedido_historico
\* ------------------------------------------------------------------------
\* inserts the order as already paid
createOrderPaid(d, dados, numero) ==
    LET row == [numero_pedido |-> numero,
                usuario_id |-> dados.usuario_id,
                endereco_id |-> dados.endereco_id,
                subtotal |-> dados.subtotal,
                frete |-> dados.frete,
                desconto |-> dados.desconto,
                total |-> dados.total,
                status |-> "pago"]
    IN IF \E i \in Ids(d.pedidos) : d.pedidos[i].numero_pedido = numero
       THEN Fail(d, "UNIQUE constraint failed: pedidos.numero_pedido")
       ELSE Ok([d EXCEPT !.pedidos = Append(@, row)], Len(d.pedidos) + 1)

\* inserts the order whatever its number
createOrderNoUnique(d, dados, numero) ==
    LET row == [numero_pedido |-> numero,
                usuario_id |-> dados.usuario_id,
                endereco_id |-> dados.endereco_id,
                subtotal |-> dados.subtotal,
                frete |-> dados.frete,
                desconto |-> dados.desconto,
                total |-> dados.total,
                status |-> "pendente"]
    IN IF dados.subtotal < 0 \/ dados.total < 0
       THEN Fail(d, "CHECK constraint failed: pedidos")
       ELSE Ok([d EXCEPT !.pedidos = Append(@, row)], Len(d.pedidos) + 1)

\* INSERT INTO pedidos; numero_pedido = generateOrderNumber() is `numero`
createOrder(d, dados, numero) ==
    LET row == [numero_pedido |-> numero,
                usuario_id |-> dados.usuario_id,
                endereco_id |-> dados.endereco_id,
                subtotal |-> dados.subtotal,
                frete |-> dados.frete,
                desconto |-> dados.desconto,
                total |-> dados.total,
                status |-> "pendente"]
    IN IF \E i \in Ids(d.pedidos) : d.pedidos[i].numero_pedido = numero
       THEN Fail(d, "UNIQUE constraint failed: pedidos.numero_pedido")
       ELSE IF dados.subtotal < 0 \/ dados.frete < 0
               \/ dados.desconto < 0 \/ dados.total < 0
       THEN Fail(d, "CHECK constraint failed: pedidos")
       ELSE IF dados.usuario_id \notin Ids(d.usuarios)
               \/ dados.endereco_id \notin Ids(d.enderecos)
       THEN Fail(d, "FOREIGN KEY constraint failed")
       ELSE Ok([d EXCEPT !.pedidos = Append(@, row)], Len(d.pedidos) + 1)

\* the table without CHECK (quantidade > 0)
addOrderItemNoCheck(d, dados) ==
    Ok([d EXCEPT !.pedido_itens =
           Append(@, [pedido_id |-> dados.pedido_id,
                      produto_id |-> dados.produto_id,
                      sku |-> dados.sku,
                      quantidade |-> dados.quantidade,
                      preco_unitario |-> dados.preco_unitario,
                      subtotal |-> dados.quantidade * dados.preco_unitario])],
       Len(d.pedido_itens) + 1)

\* INSERT OR REPLACE keyed by product: a later item of the same product
\* takes the place of the earlier one
addOrderItemUpsert(d, dados) ==
    LET subtotal == dados.quantidade * dados.preco_unitario
        row == [pedido_id |-> dados.pedido_id,
                produto_id |-> dados.produto_id,
                sku |-> dados.sku,
                quantidade |-> dados.quantidade,
                preco_unitario |-> dados.preco_unitario,
                subtotal |-> subtotal]
        old == {i \in Ids(d.pedido_itens) :
                   d.pedido_itens[i].produto_id = dados.produto_id}
    IN IF dados.quantidade <= 0
       THEN Fail(d, "CHECK constraint failed: quantidade > 0")
       ELSE IF old # {}
       THEN Ok([d EXCEPT !.pedido_itens[Min(old)] = row], Min(old))
       ELSE Ok([d EXCEPT !.pedido_itens = Append(@, row)],
               Len(d.pedido_itens) + 1)

\* INSERT INTO pedido_itens; subtotal = quantidade * preco_unitario
addOrderItem(d, dados) ==
    LET subtotal == dados.quantidade * dados.preco_unitario
        row == [pedido_id |-> dados.pedido_id,
                produto_id |-> dados.produto_id,
                sku |-> dados.sku,
                quantidade |-> dados.quantidade,
                preco_unitario |-> dados.preco_unitario,
                subtotal |-> subtotal]
    IN IF dados.quantidade <= 0
       THEN Fail(d, "CHECK constraint failed: quantidade > 0")
       ELSE IF dados.preco_unitario < 0 \/ subtotal < 0
       THEN Fail(d, "CHECK constraint failed: pedido_itens")
       ELSE IF dados.pedido_id \notin Ids(d.pedidos)
               \/ dados.produto_id \notin Ids(d.produtos)
       THEN Fail(d, "FOREIGN KEY constraint failed")
       ELSE Ok([d EXCEPT !.pedido_itens = Append(@, row)],
               Len(d.pedido_itens) + 1)

\* SELECT p.* FROM pedidos p JOIN usuarios u ON p.usuario_id = u.id WHERE p.id = ?
getOrderById(d, orderId) ==
    IF orderId \in Ids(d.pedidos)
       /\ d.pedidos[orderId].usuario_id \in Ids(d.usuarios)
    THEN orderId ELSE NoRow

getOrderItems(d, orderId) ==
    {i \in Ids(d.pedido_itens) : d.pedido_itens[i].pedido_id = orderId}

\* SELECT id FROM pedidos WHERE numero_pedido = ?
getOrderByNumber(d, numero) ==
    LET hit == {i \in Ids(d.pedidos) : d.pedidos[i].numero_pedido = numero}
    IN IF hit = {} THEN NoRow ELSE Min(hit)

\* ------------------------------------------------------------------------
\* Repository: queries
\* ------------------------------------------------------------------------
\* records the access in audit_logs
ReadLogged(d, id) ==
    Ok([d EXCEPT !.audit_logs =
           Append(@, [uuid |-> Len(d.audit_logs) + 1, tabela |-> "pedidos",
                      registro_id |-> id, acao |-> "SELECT",
                      usuario_id |-> NoRow])],
       id)

\* prepare(SELECT ...).get() / .all(): the rows found, the store as it was
Read(d, id) == Ok(d, id)

\* the COUNT / SUM / GROUP BY queries of the dashboard; the result kept is
\* the number of customers not deleted
getDashboardStats(d) ==
    Read(d, Cardinality({u \in Ids(d.usuarios) : ~d.usuarios[u].deletado}))

\* ------------------------------------------------------------------------
\* Repository: audit_logs
\* ------------------------------------------------------------------------
\* INSERT INTO audit_logs with a fresh uuid
logAudit(d, tabela, registro_id, acao, usuario_id) ==
    LET row == [uuid |-> Len(d.audit_logs) + 1, tabela |-> tabela,
                registro_id |-> registro_id, acao |-> acao,
                usuario_id |-> usuario_id]
    IN IF usuario_id # NoRow /\ usuario_id \notin Ids(d.usuarios)
       THEN Fail(d, "FOREIGN KEY constraint failed")
       ELSE Ok([d EXCEPT !.audit_logs = Append(@, row)], Len(d.audit_logs) + 1)

\* reads the previous status after the UPDATE
updateOrderStatusStale(d, orderId, novoStatus) ==
    LET pedido == getOrderById(d, orderId)
        updated == [d EXCEPT !.pedidos[orderId].status = novoStatus]
        event == [pedido_id |-> orderId,
                  status_anterior |-> updated.pedidos[pedido].status,
                  status_novo |-> novoStatus]
    IN IF pedido = NoRow
       THEN Fail(d, "Pedido nao encontrado")
       ELSE IF novoStatus \notin OrderStatus \cup {Null}
       THEN Fail(d, "CHECK constraint failed: status")
       ELSE IF novoStatus = Null
       THEN Fail(updated, "NOT NULL constraint failed: pedido_historico.status_novo")
       ELSE Ok([updated EXCEPT !.pedido_historico = Append(@, event)],
               Len(d.pedido_historico) + 1)

\* keeps one event per order: a later transition rewrites it
updateOrderStatusOverwrite(d, orderId, novoStatus) ==
    LET pedido == getOrderById(d, orderId)
        updated == [d EXCEPT !.pedidos[orderId].status = novoStatus]
        event == [pedido_id |-> orderId,
                  status_anterior |-> d.pedidos[pedido].status,
                  status_novo |-> novoStatus]
        old == {h \in Ids(d.pedido_historico) :
                   d.pedido_historico[h].pedido_id = orderId}
    IN IF pedido = NoRow
       THEN Fail(d, "Pedido nao encontrado")
       ELSE IF novoStatus \notin OrderStatus \cup {Null}
       THEN Fail(d, "CHECK constraint failed: status")
       ELSE IF novoStatus = Null
       THEN Fail(updated, "NOT NULL constraint failed: pedido_historico.status_novo")
       ELSE IF old # {}
       THEN Ok([updated EXCEPT !.pedido_historico[Min(old)] = event], Min(old))
       ELSE Ok([updated EXCEPT !.pedido_historico = Append(@, event)],
               Len(d.pedido_historico) + 1)

\* the states the state machine of the specification calls terminal
Terminal == {"entregue", "cancelado", "reembolsado"}

\* refuses to leave a terminal state
updateOrderStatusGuarded(d, orderId, novoStatus) ==
    LET pedido == getOrderById(d, orderId)
        statusAnterior == d.pedidos[pedido].status
        updated == [d EXCEPT !.pedidos[orderId].status = novoStatus]
        event == [pedido_id |-> orderId,
                  status_anterior |-> statusAnterior,
                  status_novo |-> novoStatus]
    IN IF pedido = NoRow
       THEN Fail(d, "Pedido nao encontrado")
       ELSE IF statusAnterior \in Terminal
       THEN Fail(d, "Transicao invalida")
       ELSE IF novoStatus \notin OrderStatus \cup {Null}
       THEN Fail(d, "CHECK constraint failed: status")
       ELSE IF novoStatus = Null
       THEN Fail(updated, "NOT NULL constraint failed: pedido_historico.status_novo")
       ELSE Ok([updated EXCEPT !.pedido_historico = Append(@, event)],
               Len(d.pedido_historico) + 1)

\* runs the two statements without looking the order up
updateOrderStatusBlind(d, orderId, novoStatus) ==
    LET known == orderId \in Ids(d.pedidos)
        updated == IF known
                   THEN [d EXCEPT !.pedidos[orderId].status = novoStatus]
                   ELSE d
        event == [pedido_id |-> orderId,
                  status_anterior |-> IF known THEN d.pedidos[orderId].status
                                      ELSE Null,
                  status_novo |-> novoStatus]
    IN IF novoStatus \notin OrderStatus \cup {Null}
       THEN Fail(d, "CHECK constraint failed: status")
       ELSE IF novoStatus = Null
       THEN Fail(updated, "NOT NULL constraint failed: pedido_historico.status_novo")
       ELSE Ok([updated EXCEPT !.pedido_historico = Append(@, event)],
               Len(d.pedido_historico) + 1)

\* UPDATE pedidos SET status = ?, then INSERT INTO pedido_historico.  The two
\* statements run outside any transaction: a failure of the second leaves the
\* first in place.  CHECK (status IN (...)) lets NULL through; status_novo is
\* NOT NULL.
updateOrderStatus(d, orderId, novoStatus) ==
    LET pedido == getOrderById(d, orderId)
        statusAnterior == d.pedidos[pedido].status
        updated == [d EXCEPT !.pedidos[orderId].status = novoStatus]
        event == [pedido_id |-> orderId,
                  status_anterior |-> statusAnterior,
                  status_novo |-> novoStatus]
    IN IF pedido = NoRow
       THEN Fail(d, "Pedido nao encontrado")
       ELSE IF novoStatus \notin OrderStatus \cup {Null}
       THEN Fail(d, "CHECK constraint failed: status")
       ELSE IF novoStatus = Null
       THEN Fail(updated, "NOT NULL constraint failed: pedido_historico.status_novo")
       ELSE Ok([updated EXCEPT !.pedido_historico = Append(@, event)],
               Len(d.pedido_historico) + 1)

\* ------------------------------------------------------------------------
\* Transactions
\* ------------------------------------------------------------------------
\* The state of a transaction body: the store as written so far, the values
\* the body holds, and whether it has thrown.
Frame(d) == [ok |-> TRUE, err |-> "", db |-> d, usuario |-> NoRow,
             novo |-> FALSE, endereco |-> NoRow, produto |-> NoRow,
             preco |-> 0, pedido |-> NoRow, total |-> 0]

Throw(f, err) == [f EXCEPT !.ok = FALSE, !.err = err]

\* the body goes on with the store a repository call returned, or throws its error
Step(f, r) == IF r.ok THEN [f EXCEPT !.db = r.db]
              ELSE [f EXCEPT !.ok = FALSE, !.err = r.err, !.db = r.db]

withTransactionNoRollback(d, f) == f.db

\* db.transaction(fn): COMMIT when fn returns, ROLLBACK when it throws
withTransaction(d, f) == IF f.ok THEN f.db ELSE d

\* ------------------------------------------------------------------------
\* POST /api/checkout: the transaction body
\* ------------------------------------------------------------------------
\* reuses the customer found by email whatever its cpf
CheckoutIdentityMerge(f, in) ==
    LET cpf == cpfLimpo(in.cpf)
        usuario == getUserByEmail(f.db, in.email)
    IN IF usuario # NoRow
       THEN [f EXCEPT !.usuario = usuario]
       ELSE IF getUserByCPF(f.db, cpf) # NoRow
            THEN Throw(f, "CPF ja cadastrado com outro email")
            ELSE [f EXCEPT !.novo = TRUE]

\* looks the customer up by email only
CheckoutIdentityEmailOnly(f, in) ==
    LET cpf == cpfLimpo(in.cpf)
        usuario == getUserByEmail(f.db, in.email)
    IN IF usuario # NoRow
       THEN IF f.db.usuarios[usuario].cpf # cpf
            THEN Throw(f, "Email ja cadastrado com outro CPF")
            ELSE [f EXCEPT !.usuario = usuario]
       ELSE [f EXCEPT !.novo = TRUE]

\* lookup by the email as submitted, then by the cleaned cpf
CheckoutIdentity(f, in) ==
    LET cpf == cpfLimpo(in.cpf)
        usuario == getUserByEmail(f.db, in.email)
    IN IF usuario # NoRow
       THEN IF f.db.usuarios[usuario].cpf # cpf
            THEN Throw(f, "Email ja cadastrado com outro CPF")
            ELSE [f EXCEPT !.usuario = usuario]
       ELSE IF getUserByCPF(f.db, cpf) # NoRow
            THEN Throw(f, "CPF ja cadastrado com outro email")
            ELSE [f EXCEPT !.novo = TRUE]

\* writes the customer-creation audit entry for a reused customer too
CheckoutCreateUserAuditAlways(f, in) ==
    IF ~f.ok THEN f
    ELSE IF ~f.novo
    THEN Step(f, logAudit(f.db, "usuarios", f.usuario, "INSERT", NoRow))
    ELSE LET r == createUser(f.db, toLowerTrim(in.email), cpfLimpo(in.cpf))
             usuario == getUserById(r.db, r.id)
             a == logAudit(r.db, "usuarios", usuario, "INSERT", NoRow)
         IN IF ~r.ok THEN Step(f, r)
            ELSE [Step(f, a) EXCEPT !.usuario = usuario]

CheckoutCreateUser(f, in) ==
    IF ~f.ok \/ ~f.novo THEN f
    ELSE LET r == createUser(f.db, toLowerTrim(in.email), cpfLimpo(in.cpf))
             usuario == getUserById(r.db, r.id)
             a == logAudit(r.db, "usuarios", usuario, "INSERT", NoRow)
         IN IF ~r.ok THEN Step(f, r)
            ELSE [Step(f, a) EXCEPT !.usuario = usuario]

\* stores the delivery address without making it the default
CheckoutAddressSecondary(f) ==
    IF ~f.ok THEN f
    ELSE LET r == createAddress(f.db, f.usuario, 0)
         IN [Step(f, r) EXCEPT !.endereco = r.id]

CheckoutAddress(f) ==
    IF ~f.ok THEN f
    ELSE LET r == createAddress(f.db, f.usuario, 1)
         IN [Step(f, r) EXCEPT !.endereco = r.id]

CheckoutStock(f, in) ==
    IF ~f.ok THEN f
    ELSE LET produto == getProductBySku(f.db, SKU)
         IN IF produto = NoRow
            THEN Throw(f, "Produto nao encontrado")
            ELSE IF f.db.produtos[produto].estoque < in.quantidade
            THEN Throw(f, "Estoque insuficiente")
            ELSE [f EXCEPT !.produto = produto, !.preco = ForcedPrice]

CheckoutOrder(f, in, numero) ==
    IF ~f.ok THEN f
    ELSE LET subtotal == f.preco * in.quantidade
             frete == 0
             desconto == 0
             total == subtotal + frete - desconto
             r == createOrder(f.db,
                              [usuario_id |-> f.usuario, endereco_id |-> f.endereco,
                               subtotal |-> subtotal, frete |-> frete,
                               desconto |-> desconto, total |-> total],
                              numero)
         IN [Step(f, r) EXCEPT !.pedido = r.id, !.total = total]

\* snapshots the catalog price instead of the price charged
CheckoutItemStoredPrice(f, in) ==
    IF ~f.ok THEN f
    ELSE Step(f, addOrderItem(f.db,
                     [pedido_id |-> f.pedido, produto_id |-> f.produto,
                      sku |-> f.db.produtos[f.produto].sku,
                      quantidade |-> in.quantidade,
                      preco_unitario |-> f.db.produtos[f.produto].preco_unitario]))

CheckoutItem(f, in) ==
    IF ~f.ok THEN f
    ELSE Step(f, addOrderItem(f.db,
                     [pedido_id |-> f.pedido, produto_id |-> f.produto,
                      sku |-> f.db.produtos[f.produto].sku,
                      quantidade |-> in.quantidade, preco_unitario |-> f.preco]))

\* takes one unit whatever the quantity bought
CheckoutDecrementOne(f, in) ==
    IF ~f.ok THEN f
    ELSE Step(f, updateStock(f.db, f.produto, 1))

\* leaves the stock as it is
CheckoutDecrementSkipped(f, in) == f

CheckoutDecrement(f, in) ==
    IF ~f.ok THEN f
    ELSE Step(f, updateStock(f.db, f.produto, in.quantidade))

\* writes no audit entry for the order
CheckoutAuditSkipped(f) == f

CheckoutAudit(f) ==
    IF ~f.ok THEN f
    ELSE Step(f, logAudit(f.db, "pedidos", f.pedido, "INSERT", f.usuario))

\* the statements in order, each run on the frame the one before it left
CheckoutBody(d, in, numero) ==
    LET identified == {CheckoutIdentity(f, in) : f \in {Frame(d)}}
        registered == {CheckoutCreateUser(f, in) : f \in identified}
        addressed == {CheckoutAddress(f) : f \in registered}
        priced == {CheckoutStock(f, in) : f \in addressed}
        ordered == {CheckoutOrder(f, in, numero) : f \in priced}
        itemised == {CheckoutItem(f, in) : f \in ordered}
        decremented == {CheckoutDecrement(f, in) : f \in itemised}
    IN CHOOSE g \in {CheckoutAudit(f) : f \in decremented} : TRUE

\* the catch block of POST /api/checkout: message -> status
CheckoutErrorStatus(err) ==
    IF err = "Email ja cadastrado com outro CPF" THEN 400
    ELSE IF err = "CPF ja cadastrado com outro email" THEN 400
    ELSE IF err = "Estoque insuficiente" THEN 400
    ELSE 500

\* the failure kind the catch block reports
CheckoutErrorKind(err) ==
    IF err = "Email ja cadastrado com outro CPF" THEN "IdentityConflict"
    ELSE IF err = "CPF ja cadastrado com outro email" THEN "IdentityConflict"
    ELSE IF err = "Estoque insuficiente" THEN "InsufficientStock"
    ELSE "StorageFailure"

\* ------------------------------------------------------------------------
\* salvar-dados.js: the two scripted order pipelines
\* ------------------------------------------------------------------------
\* the customer by the email as given, with no cpf comparison; created when
\* there is none
PedidoCustomer(f, in) ==
    LET found == getUserByEmail(f.db, in.email)
        u == createUser(f.db, in.email, in.cpf)
    IN IF found # NoRow THEN [f EXCEPT !.usuario = found]
       ELSE [Step(f, u) EXCEPT !.usuario = getUserById(u.db, u.id),
                               !.novo = TRUE]

PedidoAddress(f) ==
    IF ~f.ok THEN f
    ELSE LET a == createAddress(f.db, f.usuario, 1)
         IN [Step(f, a) EXCEPT !.endereco = a.id]

\* salvarPedido reads produto.preco_unitario without testing produto or its
\* stock
PedidoProductUnchecked(f) ==
    IF ~f.ok THEN f
    ELSE LET produto == getProductBySku(f.db, SKU)
         IN IF produto = NoRow
            THEN Throw(f, "TypeError: Cannot read properties of undefined")
            ELSE [f EXCEPT !.produto = produto,
                           !.preco = f.db.produtos[produto].preco_unitario]

\* exemploCriarPedidoCompleto tests the product and its stock
PedidoProduct(f, in) ==
    IF ~f.ok THEN f
    ELSE LET produto == getProductBySku(f.db, SKU)
         IN IF produto = NoRow
            THEN Throw(f, "Produto nao encontrado")
            ELSE IF f.db.produtos[produto].estoque < in.quantidade
            THEN Throw(f, "Estoque insuficiente")
            ELSE [f EXCEPT !.produto = produto,
                           !.preco = f.db.produtos[produto].preco_unitario]

PedidoOrder(f, in, numero) ==
    IF ~f.ok THEN f
    ELSE LET subtotal == f.preco * in.quantidade
             frete == 0
             desconto == 0
             total == subtotal + frete - desconto
             o == createOrder(f.db,
                              [usuario_id |-> f.usuario, endereco_id |-> f.endereco,
                               subtotal |-> subtotal, frete |-> frete,
                               desconto |-> desconto, total |-> total],
                              numero)
         IN [Step(f, o) EXCEPT !.pedido = o.id, !.total = total]

PedidoItem(f, in) ==
    IF ~f.ok THEN f
    ELSE Step(f, addOrderItem(f.db,
                     [pedido_id |-> f.pedido, produto_id |-> f.produto,
                      sku |-> f.db.produtos[f.produto].sku,
                      quantidade |-> in.quantidade, preco_unitario |-> f.preco]))

PedidoDecrement(f, in) ==
    IF ~f.ok THEN f
    ELSE Step(f, updateStock(f.db, f.produto, in.quantidade))

PedidoAudit(f) ==
    IF ~f.ok THEN f
    ELSE Step(f, logAudit(f.db, "pedidos", f.pedido, "INSERT", f.usuario))

\* salvarPedido: customer by email as given (no cpf comparison), no stock
\* check before updateStock, the stored price, no audit entry
salvarPedidoBody(d, in, numero) ==
    LET identified == {PedidoCustomer(f, in) : f \in {Frame(d)}}
        addressed == {PedidoAddress(f) : f \in identified}
        priced == {PedidoProductUnchecked(f) : f \in addressed}
        ordered == {PedidoOrder(f, in, numero) : f \in priced}
        itemised == {PedidoItem(f, in) : f \in ordered}
    IN CHOOSE g \in {PedidoDecrement(f, in) : f \in itemised} : TRUE

\* exemploCriarPedidoCompleto: customer by email as given, stock check, the
\* stored price, one audit entry for the order
exemploCriarPedidoCompletoBody(d, in, numero) ==
    LET identified == {PedidoCustomer(f, in) : f \in {Frame(d)}}
        addressed == {PedidoAddress(f) : f \in identified}
        priced == {PedidoProduct(f, in) : f \in addressed}
        ordered == {PedidoOrder(f, in, numero) : f \in priced}
        itemised == {PedidoItem(f, in) : f \in ordered}
        decremented == {PedidoDecrement(f, in) : f \in itemised}
    IN CHOOSE g \in {PedidoAudit(f) : f \in decremented} : TRUE

\* ------------------------------------------------------------------------
\* State
\* ------------------------------------------------------------------------
VARIABLES
    db,     \* the SQLite store
    reqs,   \* the POST /api/checkout handlers suspended at `await fetch`
    last,   \* the operation that ran last: its input, outcome and answer
    mails,  \* the email requests to Brevo still in flight
    logins  \* the POST /api/auth/login handlers suspended at `await bcrypt.compare`

vars == <<db, reqs, last, mails, logins>>

Requests == 1 .. NReq

NoInput == [email |-> "", cpf |-> "", quantidade |-> 0]

Idle == [pc |-> "idle", pedido |-> NoRow, novo |-> FALSE]

\* a login handler not started, or answered
NoLogin == [pc |-> "idle", usuario |-> NoRow, tentativas_login |-> 0,
            senhaValida |-> FALSE]

Op(op, req, in, id, status, f, http) ==
    [op |-> op, req |-> req, in |-> in, id |-> id, status |-> status,
     ok |-> f.ok, err |-> f.err, http |-> http]

\* initializeDatabase: empty tables and the seeded product
InitDb ==
    [usuarios |-> <<>>,
     enderecos |-> <<>>,
     produtos |-> <<[sku |-> SKU, preco_unitario |-> SeedPrice,
                     estoque |-> SeedStock, ativo |-> 1, deletado |-> FALSE]>>,
     pedidos |-> <<>>,
     pedido_itens |-> <<>>,
     pedido_historico |-> <<>>,
     audit_logs |-> <<>>]

Init ==
    /\ db = InitDb
    /\ reqs = [r \in Requests |-> Idle]
    /\ last = Op("init", 0, NoInput, NoRow, "", Frame(InitDb), 0)
    /\ mails = 0
    /\ logins = [r \in Requests |-> NoLogin]

\* the model runs a pipeline while the tables have room for the address and
\* the order it inserts (and so for the customer: no customer without address)
Room ==
    /\ Len(db.enderecos) < MaxRows
    /\ Len(db.pedidos) < MaxRows

\* ------------------------------------------------------------------------
\* POST /api/checkout
\* ------------------------------------------------------------------------
\* where the handler stands once withTransaction is over: suspended on the
\* payment-link request it started, or finished by the catch block
AfterTransactionAlways(f) ==
    [pc |-> "awaiting", pedido |-> f.pedido, novo |-> f.novo]

AfterTransaction(f) ==
    IF f.ok
    THEN [pc |-> "awaiting", pedido |-> f.pedido, novo |-> f.novo]
    ELSE Idle

\* the two enviarEmailBrevo calls, not awaited, each up to its `await fetch`
EmailsStarted(f) == IF f.ok THEN EmailsPerCheckout ELSE 0

\* rolls the order back when a collaborator fails: the order is cancelled and
\* its stock returned
AfterCollaboratorCompensate(d, pedido, fine) ==
    IF fine \/ pedido \notin Ids(d.pedidos) THEN d
    ELSE [d EXCEPT !.pedidos[pedido].status = "cancelado",
                   !.produtos[1].estoque = @ + 1]

\* the store after a collaborator call settled: neither catch block writes
AfterCollaborator(d, pedido, fine) == d

\* The handler up to its first await, for a body validateCheckout lets
\* through: the transaction; then either the catch block answers, or the two
\* emails and the payment-link request are started and the handler suspends.
Checkout(r, in, numero) ==
    /\ reqs[r].pc = "idle"
    /\ \A q \in Requests : q < r => reqs[q].pc # "idle"
    /\ Room
    /\ \E f \in {CheckoutBody(db, in, numero)} :
          /\ db' = withTransaction(db, f)
          /\ reqs' = [reqs EXCEPT ![r] = AfterTransaction(f)]
          /\ mails' = mails + EmailsStarted(f)
          /\ last' = Op("checkout", r, in, f.pedido, "", f,
                        IF f.ok THEN 0 ELSE CheckoutErrorStatus(f.err))
    /\ UNCHANGED logins

\* the payment-link request settles and the handler answers: 201 with the
\* link, or 500
PaymentLink(r, linked) ==
    /\ reqs[r].pc = "awaiting"
    /\ reqs' = [reqs EXCEPT ![r] = Idle]
    /\ db' = AfterCollaborator(db, reqs[r].pedido, linked)
    /\ last' = Op("paymentLink", r, NoInput, reqs[r].pedido, "",
                  [ok |-> linked,
                   err |-> IF linked THEN ""
                           ELSE "Erro na comunicacao com a InfinitePay."],
                  IF linked THEN 201 ELSE 500)
    /\ UNCHANGED <<mails, logins>>

\* one email request settles: Brevo accepted it, or it failed and
\* enviarEmailBrevo logged the error
EmailSettled(delivered) ==
    /\ mails > 0
    /\ mails' = mails - 1
    /\ db' = AfterCollaborator(db, NoRow, delivered)
    /\ last' = Op("email", 0, NoInput, NoRow, "",
                  [ok |-> delivered,
                   err |-> IF delivered THEN "" ELSE "[EMAIL API] Erro"], 0)
    /\ UNCHANGED <<reqs, logins>>

\* ------------------------------------------------------------------------
\* salvar-dados.js entry points
\* ------------------------------------------------------------------------
SalvarPedido(in, numero) ==
    /\ Room
    /\ \E f \in {salvarPedidoBody(db, in, numero)} :
          /\ db' = withTransaction(db, f)
          /\ last' = Op("salvarPedido", 0, in, f.pedido, "", f, 0)
    /\ UNCHANGED <<reqs, mails, logins>>

ExemploCriarPedidoCompleto(in, numero) ==
    /\ Room
    /\ \E f \in {exemploCriarPedidoCompletoBody(db, in, numero)} :
          /\ db' = withTransaction(db, f)
          /\ last' = Op("exemploCriarPedidoCompleto", 0, in, f.pedido, "", f, 0)
    /\ UNCHANGED <<reqs, mails, logins>>

\* salvarUsuario / exemploCriarUsuario: createUser on its own
SalvarUsuario(email, cpf) ==
    /\ Len(db.usuarios) < MaxRows
    /\ LET r == createUser(db, email, cpf)
       IN /\ db' = r.db
          /\ last' = Op("salvarUsuario", 0,
                        [NoInput EXCEPT !.email = email, !.cpf = cpf],
                        r.id, "", r, 0)
    /\ UNCHANGED <<reqs, mails, logins>>

\* salvarEndereco / exemploCriarEndereco: createAddress with padrao 1, no
\* transaction around it
SalvarEndereco(usuarioId) ==
    /\ Len(db.enderecos) < MaxRows
    /\ LET r == createAddress(db, usuarioId, 1)
       IN /\ db' = r.db
          /\ last' = Op("salvarEndereco", 0, NoInput, usuarioId, "", r, 0)
    /\ UNCHANGED <<reqs, mails, logins>>

\* exemploAtualizarEstoque: updateStock on its own
ExemploAtualizarEstoque(produtoId, quantidade) ==
    /\ db.produtos[1].estoque - quantidade <= SeedStock
    /\ LET r == updateStock(db, produtoId, quantidade)
       IN /\ db' = r.db
          /\ last' = Op("exemploAtualizarEstoque", 0,
                        [NoInput EXCEPT !.quantidade = quantidade],
                        produtoId, "", r, 0)
    /\ UNCHANGED <<reqs, mails, logins>>

\* exemploDeletarUsuario
ExemploDeletarUsuario(userId) ==
    /\ LET r == softDeleteUser(db, userId)
       IN /\ db' = r.db
          /\ last' = Op("exemploDeletarUsuario", 0, NoInput, userId, "", r, 0)
    /\ UNCHANGED <<reqs, mails, logins>>

\* atualizarStatusPedido / exemploAtualizarStatusPedido
AtualizarStatusPedido(pedidoId, novoStatus) ==
    /\ Len(db.pedido_historico) < MaxRows
    /\ LET r == updateOrderStatus(db, pedidoId, novoStatus)
       IN /\ db' = r.db
          /\ last' = Op("atualizarStatusPedido", 0, NoInput, pedidoId,
                        novoStatus, r, 0)
    /\ UNCHANGED <<reqs, mails, logins>>

\* POST /api/webhook/infinitepay: the order by its number, then 'pago'
\* ignores the notification of an order that is already paid
WebhookDeduplicated(order_nsu) ==
    /\ Len(db.pedido_historico) < MaxRows
    /\ LET pedido == getOrderByNumber(db, order_nsu)
           r == IF pedido # NoRow /\ db.pedidos[pedido].status # "pago"
                THEN updateOrderStatus(db, pedido, "pago")
                ELSE Ok(db, NoRow)
       IN /\ db' = r.db
          /\ last' = Op("webhook", 0, NoInput, pedido, order_nsu, r,
                        IF r.ok THEN 200 ELSE 400)
    /\ UNCHANGED <<reqs, mails, logins>>

Webhook(order_nsu) ==
    /\ Len(db.pedido_historico) < MaxRows
    /\ LET pedido == getOrderByNumber(db, order_nsu)
           r == IF pedido # NoRow THEN updateOrderStatus(db, pedido, "pago")
                ELSE Ok(db, NoRow)
       IN /\ db' = r.db
          /\ last' = Op("webhook", 0, NoInput, pedido, order_nsu, r,
                        IF r.ok THEN 200 ELSE 400)
    /\ UNCHANGED <<reqs, mails, logins>>

\* ------------------------------------------------------------------------
\* POST /api/auth/login
\* ------------------------------------------------------------------------
\* up to `await bcrypt.compare`: the account is read and the early answers
\* are given; otherwise the handler is suspended holding the row it read
LoginStart(r, email, senhaValida) ==
    /\ logins[r].pc = "idle"
    /\ \A q \in Requests : q < r => logins[q].pc # "idle"
    /\ senhaValida => Len(db.audit_logs) < MaxLogins
    /\ LET usuario == getUserByEmail(db, email)
           in == [NoInput EXCEPT !.email = email]
       IN IF usuario = NoRow
          THEN /\ last' = Op("login", r, in, NoRow, "",
                             Fail(db, "Email ou senha incorretos"), 401)
               /\ UNCHANGED logins
          ELSE IF db.usuarios[usuario].status = "bloqueado"
          THEN /\ last' = Op("login", r, in, usuario, "bloqueado",
                             Fail(db, "Conta bloqueada"), 403)
               /\ UNCHANGED logins
          ELSE IF db.usuarios[usuario].deletado
          THEN /\ last' = Op("login", r, in, usuario, "",
                             Fail(db, "Conta nao encontrada"), 401)
               /\ UNCHANGED logins
          ELSE /\ last' = Op("loginCompare", r, in, usuario,
                             db.usuarios[usuario].status, Ok(db, usuario), 0)
               /\ logins' = [logins EXCEPT ![r] =
                     [pc |-> "comparing", usuario |-> usuario,
                      tentativas_login |-> db.usuarios[usuario].tentativas_login,
                      senhaValida |-> senhaValida]]
    /\ UNCHANGED <<db, reqs, mails>>

\* after `await bcrypt.compare`: the writes follow the row read before it
LoginFinish(r) ==
    /\ logins[r].pc = "comparing"
    /\ LET usuario == logins[r].usuario
           counted == incrementLoginAttempts(db, usuario).db
           blocked == blockUser(counted, usuario).db
           reset == updateUserLogin(db, usuario).db
           audited == logAudit(reset, "usuarios", usuario, "LOGIN", usuario).db
       IN IF ~logins[r].senhaValida
          THEN IF logins[r].tentativas_login >= BlockAt
               THEN /\ db' = blocked
                    /\ last' = Op("login", r, NoInput, usuario, "bloqueado",
                                  Fail(blocked, "Conta bloqueada por multiplas tentativas incorretas"),
                                  403)
               ELSE /\ db' = counted
                    /\ last' = Op("login", r, NoInput, usuario, "",
                                  Fail(counted, "Email ou senha incorretos"), 401)
          ELSE /\ db' = audited
               /\ last' = Op("login", r, NoInput, usuario, "",
                             Ok(audited, usuario), 200)
    /\ logins' = [logins EXCEPT ![r] = NoLogin]
    /\ UNCHANGED <<reqs, mails>>

\* ------------------------------------------------------------------------
\* Queries
\* ------------------------------------------------------------------------
\* GET /api/stats
GetStats ==
    /\ LET r == getDashboardStats(db)
       IN /\ db' = r.db
          /\ last' = Op("stats", 0, NoInput, r.id, "", r, 200)
    /\ UNCHANGED <<reqs, mails, logins>>

\* GET /api/pedidos/:numero: the order by its number, its items, its history
GetPedido(numero) ==
    /\ LET pedido == getOrderByNumber(db, numero)
           r == IF pedido = NoRow THEN Fail(db, "Pedido nao encontrado")
                ELSE Read(Read(Read(db, pedido).db,
                               Cardinality(getOrderItems(db, pedido))).db,
                          pedido)
       IN /\ db' = r.db
          /\ last' = Op("getPedido", 0, NoInput, pedido, numero, r,
                        IF r.ok THEN 200 ELSE 404)
    /\ UNCHANGED <<reqs, mails, logins>>

\* exemploBuscarUsuarioPorEmail
ExemploBuscarUsuarioPorEmail(email) ==
    /\ LET r == Read(db, getUserByEmail(db, email))
       IN /\ db' = r.db
          /\ last' = Op("exemploBuscarUsuarioPorEmail", 0,
                        [NoInput EXCEPT !.email = email], r.id, "", r, 0)
    /\ UNCHANGED <<reqs, mails, logins>>

\* exemploBuscarUsuarioPorCPF
ExemploBuscarUsuarioPorCPF(cpf) ==
    /\ LET r == Read(db, getUserByCPF(db, cpf))
       IN /\ db' = r.db
          /\ last' = Op("exemploBuscarUsuarioPorCPF", 0,
                        [NoInput EXCEPT !.cpf = cpf], r.id, "", r, 0)
    /\ UNCHANGED <<reqs, mails, logins>>

\* exemploBuscarEnderecoPadrao
ExemploBuscarEnderecoPadrao(usuarioId) ==
    /\ LET r == Read(db, getDefaultAddress(db, usuarioId))
       IN /\ db' = r.db
          /\ last' = Op("exemploBuscarEnderecoPadrao", 0, NoInput, r.id, "",
                        r, 0)
    /\ UNCHANGED <<reqs, mails, logins>>

\* exemploBuscarPedidoCompleto: the order by its number, by id, its items
ExemploBuscarPedidoCompleto(numero) ==
    /\ LET pedido == getOrderByNumber(db, numero)
           r == IF pedido = NoRow THEN Read(db, NoRow)
                ELSE Read(Read(db, getOrderById(db, pedido)).db,
                          Cardinality(getOrderItems(db, pedido)))
       IN /\ db' = r.db
          /\ last' = Op("exemploBuscarPedidoCompleto", 0, NoInput, pedido,
                        numero, r, 0)
    /\ UNCHANGED <<reqs, mails, logins>>

\* ------------------------------------------------------------------------
\* Specifications
\* ------------------------------------------------------------------------
TransitionInputs == OrderStatus \cup {Null, "invalido"}

\* the one body the status specification submits
StatusCheckoutInput == [email |-> "ana@x.co", cpf |-> "111", quantidade |-> 1]

\* single-statement entry points of salvar-dados.js
Maintenance ==
    \/ \E u \in 1 .. MaxRows : SalvarEndereco(u)
    \/ \E q \in Quantities : ExemploAtualizarEstoque(1, q)
    \/ \E u \in 1 .. MaxRows : ExemploDeletarUsuario(u)

\* the server's checkout, next to the maintenance entry points
Next ==
    \/ \E r \in Requests, in \in CheckoutInputs, numero \in OrderNumbers :
          Checkout(r, in, numero)
    \/ \E r \in Requests, linked \in BOOLEAN : PaymentLink(r, linked)
    \/ Maintenance

Spec == Init /\ [][Next]_vars

\* all three order pipelines and the direct stock decrement
NextAll ==
    \/ \E r \in Requests, in \in CheckoutInputs, numero \in OrderNumbers :
          Checkout(r, in, numero)
    \/ \E r \in Requests, linked \in BOOLEAN : PaymentLink(r, linked)
    \/ \E in \in CheckoutInputs, numero \in OrderNumbers : SalvarPedido(in, numero)
    \/ \E in \in CheckoutInputs, numero \in OrderNumbers :
          ExemploCriarPedidoCompleto(in, numero)
    \/ \E q \in Quantities : ExemploAtualizarEstoque(1, q)

SpecAll == Init /\ [][NextAll]_vars

\* orders of one customer and the status transitions on them
NextStatus ==
    \/ \E r \in Requests, numero \in OrderNumbers :
          Checkout(r, StatusCheckoutInput, numero)
    \/ \E r \in Requests, linked \in BOOLEAN : PaymentLink(r, linked)
    \/ \E p \in 1 .. MaxRows, s \in TransitionInputs : AtualizarStatusPedido(p, s)
    \/ \E n \in OrderNumbers : Webhook(n)

SpecStatus == Init /\ [][NextStatus]_vars

\* the checkout and the collaborator calls it leaves in flight
NextCollab ==
    \/ \E r \in Requests, in \in CheckoutInputs, numero \in OrderNumbers :
          Checkout(r, in, numero)
    \/ \E r \in Requests, linked \in BOOLEAN : PaymentLink(r, linked)
    \/ \E delivered \in BOOLEAN : EmailSettled(delivered)

SpecCollab == Init /\ [][NextCollab]_vars

\* the query surface, on the stores checkouts leave
NextQuery ==
    \/ \E r \in Requests, in \in CheckoutInputs, numero \in OrderNumbers :
          Checkout(r, in, numero)
    \/ \E r \in Requests, linked \in BOOLEAN : PaymentLink(r, linked)
    \/ GetStats
    \/ \E numero \in OrderNumbers : GetPedido(numero)
    \/ \E email \in Emails : ExemploBuscarUsuarioPorEmail(email)
    \/ \E cpf \in CPFs : ExemploBuscarUsuarioPorCPF(cpf)
    \/ \E u \in 1 .. MaxRows : ExemploBuscarEnderecoPadrao(u)
    \/ \E numero \in OrderNumbers : ExemploBuscarPedidoCompleto(numero)

SpecQuery == Init /\ [][NextQuery]_vars

\* the accounts the login specification registers
LoginAccounts ==
    {[email |-> "ana@x.co", cpf |-> "111"], [email |-> "bob@x.co", cpf |-> "2-22"]}

\* registered customers and concurrent login attempts on them
NextLogin ==
    \/ \E a \in LoginAccounts : SalvarUsuario(a.email, a.cpf)
    \/ \E r \in Requests, email \in Emails, senhaValida \in BOOLEAN :
          LoginStart(r, email, senhaValida)
    \/ \E r \in Requests : LoginFinish(r)

SpecLogin == Init /\ [][NextLogin]_vars

\* customers created by checkouts and directly, and soft deletes
NextIdentity ==
    \/ \E r \in Requests, in \in CheckoutInputs, numero \in OrderNumbers :
          Checkout(r, in, numero)
    \/ \E r \in Requests, linked \in BOOLEAN : PaymentLink(r, linked)
    \/ \E email \in Emails, cpf \in CPFs : SalvarUsuario(email, cpf)
    \/ \E u \in 1 .. MaxRows : ExemploDeletarUsuario(u)

SpecIdentity == Init /\ [][NextIdentity]_vars

\* ------------------------------------------------------------------------
\* Properties
\* ------------------------------------------------------------------------
\* `last` is written by every action, so in a step last' names the operation
\* that made the step, last'.in its input, and db / db' the store around it.

Stock(d) == d.produtos[1].estoque

Pipelines == {"checkout", "salvarPedido", "exemploCriarPedidoCompleto"}

\* the email and the cpf a pipeline stores for a body
StoredEmail(op, in) == IF op = "checkout" THEN toLowerTrim(in.email) ELSE in.email
StoredCpf(op, in) == IF op = "checkout" THEN cpfLimpo(in.cpf) ELSE in.cpf

Live(d) == {i \in Ids(d.usuarios) : ~d.usuarios[i].deletado}

Defaults(d, u) ==
    {a \in Ids(d.enderecos) : d.enderecos[a].usuario_id = u /\ d.enderecos[a].padrao = 1}

\* C1: a checkout whose unit of work fails leaves the whole store (customers,
\* addresses with their default flags, orders, items, stock, audit entries)
\* exactly as it was before the checkout started.
C1_CheckoutAllOrNothing ==
    [][(last'.op = "checkout" /\ ~last'.ok) => db' = db]_vars

\* a checkout of a customer with a default address has failed at the stock
\* check, after the customer's defaults were demoted and an address inserted
C1_FailedAfterWrites ==
    /\ last.op = "checkout"
    /\ ~last.ok
    /\ last.err = "Estoque insuficiente"
    /\ \E u \in Live(db) :
          /\ db.usuarios[u].email = last.in.email
          /\ Defaults(db, u) # {}

C3_StoredPriceTimesQuantity ==
    \A p \in Ids(db.pedidos) : \A i \in Ids(db.pedido_itens) :
        db.pedido_itens[i].pedido_id = p
        => /\ db.pedidos[p].subtotal =
                db.produtos[db.pedido_itens[i].produto_id].preco_unitario
                    * db.pedido_itens[i].quantidade
           /\ db.pedidos[p].total = db.pedidos[p].subtotal

\* C4: when a checkout runs while another handler, which created the
\* customer of the same email and tax-id, is still suspended, the store ends
\* with exactly one customer row of that email and exactly one of that
\* tax-id: the second checkout adds none.
C4_OneCustomerUnderRace ==
    [][\A r1 \in Requests :
          LET e == toLowerTrim(last'.in.email)
              c == cpfLimpo(last'.in.cpf)
              u == db.pedidos[reqs[r1].pedido].usuario_id
          IN (/\ last'.op = "checkout"
              /\ last'.req # r1
              /\ reqs[r1].pc = "awaiting"
              /\ reqs[r1].novo
              /\ db.usuarios[u].email = e
              /\ db.usuarios[u].cpf = c)
             => /\ Len(db'.usuarios) = Len(db.usuarios)
                /\ Cardinality({i \in Ids(db'.usuarios) :
                       db'.usuarios[i].email = e}) = 1
                /\ Cardinality({i \in Ids(db'.usuarios) :
                       db'.usuarios[i].cpf = c}) = 1]_vars

\* two handlers are suspended after committing for the same customer, whom
\* the first of them created
C4_BothCommitted ==
    \E r1, r2 \in Requests :
        /\ r1 # r2
        /\ reqs[r1].pc = "awaiting" /\ reqs[r2].pc = "awaiting"
        /\ reqs[r1].novo /\ ~reqs[r2].novo
        /\ db.pedidos[reqs[r1].pedido].usuario_id
             = db.pedidos[reqs[r2].pedido].usuario_id

\* C5: a checkout whose email is that of a non-deleted customer with another
\* tax-id fails with IdentityConflict (400, email bound to another tax-id)
\* and changes nothing in the store.
C5_EmailWithOtherCpfConflicts ==
    [][(/\ last'.op = "checkout"
        /\ \E i \in Live(db) :
              /\ db.usuarios[i].email = last'.in.email
              /\ db.usuarios[i].cpf # cpfLimpo(last'.in.cpf))
       => /\ ~last'.ok
          /\ last'.err = "Email ja cadastrado com outro CPF"
          /\ CheckoutErrorKind(last'.err) = "IdentityConflict"
          /\ last'.http = 400
          /\ db' = db]_vars

\* a checkout was refused because its email belongs to another tax-id
C5_EmailConflictRefused ==
    /\ last.op = "checkout"
    /\ ~last.ok
    /\ \E i \in Live(db) :
          /\ db.usuarios[i].email = last.in.email
          /\ db.usuarios[i].cpf # cpfLimpo(last.in.cpf)

\* C6: a checkout whose email no non-deleted customer has, while a
\* non-deleted customer has its tax-id, fails with IdentityConflict (400,
\* tax-id bound to another email) and changes nothing in the store.
C6_CpfWithOtherEmailConflicts ==
    [][(/\ last'.op = "checkout"
        /\ \A i \in Live(db) : db.usuarios[i].email # last'.in.email
        /\ \E i \in Live(db) : db.usuarios[i].cpf = cpfLimpo(last'.in.cpf))
       => /\ ~last'.ok
          /\ last'.err = "CPF ja cadastrado com outro email"
          /\ CheckoutErrorKind(last'.err) = "IdentityConflict"
          /\ last'.http = 400
          /\ db' = db]_vars

\* a checkout was refused because its tax-id belongs to another email
C6_CpfConflictRefused ==
    /\ last.op = "checkout"
    /\ ~last.ok
    /\ \A i \in Live(db) : db.usuarios[i].email # last.in.email
    /\ \E i \in Live(db) :
          /\ db.usuarios[i].cpf = cpfLimpo(last.in.cpf)
          /\ db.usuarios[i].email # toLowerTrim(last.in.email)

\* C7: an order pipeline run for more than the stock, by a customer that is
\* new or matches an existing one and with an order number not yet taken,
\* fails with InsufficientStock and leaves the store (stock, orders,
\* customers, addresses) unchanged.
C7_InsufficientStockReported ==
    [][LET op == last'.op
           e == StoredEmail(op, last'.in)
           c == StoredCpf(op, last'.in)
           touching == {i \in Ids(db.usuarios) :
                          \/ db.usuarios[i].email \in {e, last'.in.email}
                          \/ db.usuarios[i].cpf = c}
       IN (/\ op \in Pipelines
           /\ Stock(db) < last'.in.quantidade
           /\ last'.err # "UNIQUE constraint failed: pedidos.numero_pedido"
           /\ \A i \in touching :
                 /\ ~db.usuarios[i].deletado
                 /\ db.usuarios[i].email = last'.in.email
                 /\ db.usuarios[i].cpf = c)
          => /\ ~last'.ok
             /\ last'.err = "Estoque insuficiente"
             /\ db' = db]_vars

\* C8: the stock of every product is >= 0 in every reachable state, and a
\* direct decrement that would take it below zero fails and leaves the store
\* unchanged.
C8_StockNeverNegative ==
    /\ [](\A p \in Ids(db.produtos) : db.produtos[p].estoque >= 0)
    /\ [][(/\ last'.op = "exemploAtualizarEstoque"
           /\ Stock(db) - last'.in.quantidade < 0)
          => (~last'.ok /\ db' = db)]_vars

\* a direct decrement for more than the stock was refused
C8_DecrementRefused ==
    /\ last.op = "exemploAtualizarEstoque"
    /\ ~last.ok
    /\ last.in.quantidade > Stock(db)

\* C9: every customer has at most one default address in every state, and
\* after a default address is recorded for a customer who had one, exactly
\* one address of that customer is default: the one just inserted.
C9_SingleDefaultAddress ==
    /\ [](\A u \in Ids(db.usuarios) : Cardinality(Defaults(db, u)) <= 1)
    /\ [][LET n == Len(db'.enderecos)
              u == db'.enderecos[n].usuario_id
          IN (/\ last'.op \in {"salvarEndereco", "checkout"}
              /\ last'.ok
              /\ n = Len(db.enderecos) + 1
              /\ db'.enderecos[n].padrao = 1
              /\ Defaults(db, u) # {})
             => Defaults(db', u) = {n}]_vars

\* a default address was recorded for a customer whose earlier address was
\* the default
C9_DefaultReplaced ==
    /\ last.op = "salvarEndereco"
    /\ last.ok
    /\ Len(db.enderecos) = 2
    /\ db.enderecos[1].usuario_id = last.id
    /\ db.enderecos[2].usuario_id = last.id
    /\ db.enderecos[1].padrao = 0
    /\ db.enderecos[2].padrao = 1

\* C10: every successful status transition on an existing order appends
\* exactly one event, whose previous status is the order's stored status just
\* before the transition's write, and sets the order's status to the new one.
C10_TransitionRecordsPrevious ==
    [][LET o == last'.id
           new == IF last'.op = "webhook" THEN "pago" ELSE last'.status
           h == Len(db'.pedido_historico)
       IN (/\ last'.op \in {"atualizarStatusPedido", "webhook"}
           /\ last'.ok
           /\ o \in Ids(db.pedidos))
          => /\ h = Len(db.pedido_historico) + 1
             /\ SubSeq(db'.pedido_historico, 1, h - 1) = db.pedido_historico
             /\ db'.pedido_historico[h] =
                  [pedido_id |-> o,
                   status_anterior |-> db.pedidos[o].status,
                   status_novo |-> new]
             /\ db'.pedidos[o].status = new
             /\ \A p \in Ids(db.pedidos) \ {o} : db'.pedidos[p] = db.pedidos[p]]_vars

\* an order went through two transitions, the second recorded as leaving the
\* status the first set
C10_SecondTransition ==
    /\ last.op \in {"atualizarStatusPedido", "webhook"}
    /\ last.ok
    /\ Len(db.pedido_historico) = 2
    /\ db.pedido_historico[1].pedido_id = db.pedido_historico[2].pedido_id
    /\ db.pedido_historico[1].status_novo # "pendente"
    /\ db.pedido_historico[2].status_anterior = db.pedido_historico[1].status_novo

StatusOps == {"atualizarStatusPedido", "webhook"}

\* C11: whenever a step changes the status of an order, the same step
\* appends the event of that change to the history.
C11_StatusAndEventTogether ==
    [][\A o \in Ids(db.pedidos) :
          db'.pedidos[o].status # db.pedidos[o].status
          => /\ Len(db'.pedido_historico) = Len(db.pedido_historico) + 1
             /\ db'.pedido_historico[Len(db'.pedido_historico)] =
                  [pedido_id |-> o,
                   status_anterior |-> db.pedidos[o].status,
                   status_novo |-> db'.pedidos[o].status]]_vars

\* C12: a transition on an id that is no order fails with "Pedido nao
\* encontrado" and leaves every order and the history as they were.
C12_UnknownOrderRefused ==
    [][(/\ last'.op = "atualizarStatusPedido"
        /\ last'.id \notin Ids(db.pedidos))
       => /\ ~last'.ok
          /\ last'.err = "Pedido nao encontrado"
          /\ db'.pedidos = db.pedidos
          /\ db'.pedido_historico = db.pedido_historico]_vars

\* a transition on an unknown id was refused while an order and an event
\* of it exist
C12_UnknownRefusedBesideOrder ==
    /\ last.op = "atualizarStatusPedido"
    /\ last.id \notin Ids(db.pedidos)
    /\ ~last.ok
    /\ Len(db.pedidos) = 1
    /\ Len(db.pedido_historico) = 1

\* C13: a transition between any two valid statuses succeeds: the order
\* takes the new status and the pair is recorded in the history.
C13_AnyTransitionSucceeds ==
    [][LET o == last'.id
           h == Len(db'.pedido_historico)
       IN (/\ last'.op = "atualizarStatusPedido"
           /\ o \in Ids(db.pedidos)
           /\ db.pedidos[o].status \in OrderStatus
           /\ last'.status \in OrderStatus)
          => /\ last'.ok
             /\ db'.pedidos[o].status = last'.status
             /\ h = Len(db.pedido_historico) + 1
             /\ db'.pedido_historico[h].status_anterior = db.pedidos[o].status
             /\ db'.pedido_historico[h].status_novo = last'.status]_vars

\* a delivered order went back to pending, and the history says so
C13_DeliveredBackToPending ==
    /\ last.op = "atualizarStatusPedido"
    /\ last.ok
    /\ last.id \in Ids(db.pedidos)
    /\ db.pedidos[last.id].status = "pendente"
    /\ Len(db.pedido_historico) = 2
    /\ db.pedido_historico[2] =
         [pedido_id |-> last.id, status_anterior |-> "entregue",
          status_novo |-> "pendente"]

\* C14 as stated: an order in a terminal status keeps that status.
C14_TerminalStatusKept ==
    [][\A o \in Ids(db.pedidos) :
          db.pedidos[o].status \in Terminal
          => db'.pedidos[o].status = db.pedidos[o].status]_vars

\* C14: the terminal statuses are not enforced.  The status of an order in
\* a terminal status is changed by status transitions and payment
\* notifications only, and both go through: a payment notification sets it
\* to pago, a transition to any valid status sets it to that status.
C14_TerminalStatusLeftByTransition ==
    [][\A o \in Ids(db.pedidos) :
          db.pedidos[o].status \in Terminal
          => /\ db'.pedidos[o].status # db.pedidos[o].status
                => last'.op \in StatusOps /\ last'.id = o
             /\ (last'.op = "webhook" /\ last'.id = o)
                => last'.ok /\ db'.pedidos[o].status = "pago"
             /\ (/\ last'.op = "atualizarStatusPedido"
                 /\ last'.id = o
                 /\ last'.status \in OrderStatus)
                => last'.ok /\ db'.pedidos[o].status = last'.status]_vars

\* a payment notification turned a cancelled order into a paid one
C14_CancelledThenPaid ==
    /\ last.op = "webhook"
    /\ last.ok
    /\ last.id \in Ids(db.pedidos)
    /\ db.pedidos[last.id].status = "pago"
    /\ Len(db.pedido_historico) = 2
    /\ db.pedido_historico[2].status_anterior = "cancelado"

\* C15: when a payment-link request or an email request fails, the store
\* is left as it was: the order of that checkout, its item, its customer,
\* its address and the decremented stock are still there.
C15_CollaboratorFailureKeepsOrder ==
    [][(last'.op \in {"paymentLink", "email"} /\ ~last'.ok)
       => /\ db' = db
          /\ last'.op = "paymentLink"
             => LET o == last'.id
                IN /\ o \in Ids(db'.pedidos)
                   /\ getOrderItems(db', o) # {}
                   /\ db'.pedidos[o].usuario_id \in Ids(db'.usuarios)
                   /\ db'.pedidos[o].endereco_id \in Ids(db'.enderecos)]_vars

\* the payment link of a committed order failed; order and decrement remain
C15_LinkFailedOrderKept ==
    /\ last.op = "paymentLink"
    /\ last.http = 500
    /\ last.id \in Ids(db.pedidos)
    /\ getOrderItems(db, last.id) # {}
    /\ Stock(db) < SeedStock

\* C16: a payment-link request is in flight only for an order in the store;
\* email and payment-link requests are started only by the step of a
\* checkout that committed its order; a checkout that failed starts none.
C16_CollaboratorsAfterCommit ==
    /\ [](\A r \in Requests :
            reqs[r].pc = "awaiting" => reqs[r].pedido \in Ids(db.pedidos))
    /\ [][/\ (\/ mails' > mails
              \/ \E r \in Requests :
                    reqs[r].pc = "idle" /\ reqs'[r].pc = "awaiting")
             => /\ last'.op = "checkout"
                /\ last'.ok
                /\ last'.id \in Ids(db'.pedidos) \ Ids(db.pedidos)
          /\ (last'.op = "checkout" /\ ~last'.ok)
             => mails' = mails /\ reqs' = reqs]_vars

\* a checkout failed while the calls of an earlier one were in flight, and
\* started none of its own
C16_FailedCheckoutStartedNothing ==
    /\ last.op = "checkout"
    /\ ~last.ok
    /\ mails = EmailsPerCheckout
    /\ Cardinality({r \in Requests : reqs[r].pc = "awaiting"}) = 1

\* C17: a checkout answered with 500 has left no order in the store.
C17_ServerErrorPersistedNothing ==
    [][(last'.op \in {"checkout", "paymentLink"} /\ last'.http = 500)
       => last'.id \notin Ids(db'.pedidos)]_vars

\* C18: no two customers that are not deleted share an email or a cpf.
C18_OneLiveCustomerPerIdentity ==
    \A i, j \in Live(db) :
       i # j => /\ db.usuarios[i].email # db.usuarios[j].email
                /\ db.usuarios[i].cpf # db.usuarios[j].cpf

\* a customer creation was refused by a UNIQUE constraint, with one customer
\* deleted and another not
C18_DuplicateRefused ==
    /\ last.op \in {"salvarUsuario", "checkout"}
    /\ last.err \in {"UNIQUE constraint failed: usuarios.email",
                     "UNIQUE constraint failed: usuarios.cpf"}
    /\ Live(db) # {}
    /\ Ids(db.usuarios) \ Live(db) # {}

AuditOf(d, tabela) ==
    {a \in Ids(d.audit_logs) : d.audit_logs[a].tabela = tabela}

\* C19: a checkout whose email and cpf are those of an existing customer
\* leaves the customers table as it was and writes no audit entry for the
\* table usuarios.
C19_MatchedCustomerUntouched ==
    [][LET u == getUserByEmail(db, last'.in.email)
       IN (/\ last'.op = "checkout"
           /\ u # NoRow
           /\ db.usuarios[u].cpf = cpfLimpo(last'.in.cpf))
          => /\ db'.usuarios = db.usuarios
             /\ AuditOf(db', "usuarios") = AuditOf(db, "usuarios")]_vars

\* a committed checkout of the one existing customer: a second order audit
\* entry, still one customer audit entry
C19_ReusedCustomerOneCreationEntry ==
    /\ last.op = "checkout"
    /\ last.ok
    /\ Len(db.usuarios) = 1
    /\ Cardinality(AuditOf(db, "usuarios")) = 1
    /\ Cardinality(AuditOf(db, "pedidos")) = 2

\* C20: a checkout with the email and the cpf of a soft-deleted customer,
\* and of no other customer, for a quantity in stock and an order number
\* not yet taken, succeeds and inserts a new customer.
C20_DeletedIdentityReusable ==
    [][LET email == toLowerTrim(last'.in.email)
           cpf == cpfLimpo(last'.in.cpf)
       IN (/\ last'.op = "checkout"
           /\ \E u \in Ids(db.usuarios) \ Live(db) :
                 db.usuarios[u].email = email /\ db.usuarios[u].cpf = cpf
           /\ \A u \in Live(db) :
                 /\ db.usuarios[u].email \notin {email, last'.in.email}
                 /\ db.usuarios[u].cpf # cpf
           /\ last'.in.quantidade \in 1 .. Stock(db)
           /\ last'.err # "UNIQUE constraint failed: pedidos.numero_pedido")
          => /\ last'.ok
             /\ Len(db'.usuarios) = Len(db.usuarios) + 1]_vars

UniqueUserErrors ==
    {"UNIQUE constraint failed: usuarios.email",
     "UNIQUE constraint failed: usuarios.cpf"}

\* C21: a checkout whose customer insert hit a UNIQUE constraint is
\* answered as IdentityConflict (400).
C21_UniqueViolationIsIdentityConflict ==
    [][(last'.op = "checkout" /\ last'.err \in UniqueUserErrors)
       => /\ CheckoutErrorKind(last'.err) = "IdentityConflict"
          /\ last'.http = 400]_vars

\* the events of an order, oldest first
HistoryOf(d, o) ==
    LET OfOrder(e) == e.pedido_id = o
    IN SelectSeq(d.pedido_historico, OfOrder)

\* C23: the events of an order start from pendente, each starts from the
\* status the one before it set, and the last one set the order's current
\* status.
C23_HistoryReconstructsLifecycle ==
    \A o \in Ids(db.pedidos) :
       LET h == HistoryOf(db, o)
       IN h # <<>>
          => /\ h[1].status_anterior = "pendente"
             /\ \A k \in 2 .. Len(h) :
                   h[k].status_anterior = h[k - 1].status_novo
             /\ h[Len(h)].status_novo = db.pedidos[o].status

\* C24: the order a committed checkout created has status pendente and no
\* event in the history.
C24_NewOrderPending ==
    [][(last'.op = "checkout" /\ last'.ok)
       => /\ last'.id = Len(db.pedidos) + 1
          /\ db'.pedidos[last'.id].status = "pendente"
          /\ HistoryOf(db', last'.id) = <<>>]_vars

\* a second order was created, pending and without events, while the
\* first has been through a transition
C24_SecondOrderPending ==
    /\ last.op = "checkout"
    /\ last.ok
    /\ last.id = 2
    /\ db.pedidos[2].status = "pendente"
    /\ HistoryOf(db, 1) # <<>>
    /\ db.pedidos[1].status # "pendente"

\* C25: a payment notification for a number that is no order's is answered
\* as not found (404) and changes neither the orders nor the history.
C25_UnknownNumberNotFound ==
    [][(last'.op = "webhook" /\ last'.id = NoRow)
       => /\ ~last'.ok
          /\ last'.http = 404
          /\ db'.pedidos = db.pedidos
          /\ db'.pedido_historico = db.pedido_historico]_vars

\* C26: no two orders share a number, and a checkout refused for its order
\* number is answered 500 and leaves the store and the requests as they
\* were.
C26_OrderNumberUnique ==
    /\ [](\A i, j \in Ids(db.pedidos) :
            i # j => db.pedidos[i].numero_pedido # db.pedidos[j].numero_pedido)
    /\ [][(/\ last'.op = "checkout"
           /\ last'.err = "UNIQUE constraint failed: pedidos.numero_pedido")
          => /\ ~last'.ok
             /\ last'.http = 500
             /\ db' = db
             /\ reqs' = reqs
             /\ mails' = mails]_vars

\* the checkout of a customer not yet known was refused for its order
\* number, after its body had inserted the customer and the address
C26_CollisionRolledBack ==
    /\ last.op = "checkout"
    /\ last.err = "UNIQUE constraint failed: pedidos.numero_pedido"
    /\ Len(db.pedidos) = 1
    /\ \A u \in Ids(db.usuarios) :
          /\ db.usuarios[u].email # toLowerTrim(last.in.email)
          /\ db.usuarios[u].cpf # cpfLimpo(last.in.cpf)

\* C28: every step leaves the audit entries and the history events it found
\* in place and unchanged: both logs only grow.
C28_LogsAppendOnly ==
    [][/\ Len(db'.audit_logs) >= Len(db.audit_logs)
       /\ SubSeq(db'.audit_logs, 1, Len(db.audit_logs)) = db.audit_logs
       /\ Len(db'.pedido_historico) >= Len(db.pedido_historico)
       /\ SubSeq(db'.pedido_historico, 1, Len(db.pedido_historico))
            = db.pedido_historico]_vars

\* the second event of an order was appended after audit entries and the
\* first event
C28_SecondEventAppended ==
    /\ last.op \in StatusOps
    /\ last.ok
    /\ Len(db.audit_logs) >= 2
    /\ Len(HistoryOf(db, last.id)) = 2

QueryOps ==
    {"stats", "getPedido", "exemploBuscarUsuarioPorEmail",
     "exemploBuscarUsuarioPorCPF", "exemploBuscarEnderecoPadrao",
     "exemploBuscarPedidoCompleto"}

\* C22: a query leaves every table, and the requests in flight, as they
\* were.
C22_QueriesReadOnly ==
    [][last'.op \in QueryOps
       => /\ db' = db
          /\ reqs' = reqs
          /\ mails' = mails]_vars

\* an order was looked up by its number and found, with a request in flight
C22_OrderLookedUp ==
    /\ last.op = "getPedido"
    /\ last.http = 200
    /\ last.id \in Ids(db.pedidos)
    /\ getOrderItems(db, last.id) # {}
    /\ \E r \in Requests : reqs[r].pc = "awaiting"

\* C27: every step leaves the order items it found in place and unchanged,
\* and the amounts of the orders it found unchanged.
C27_OrderItemsImmutable ==
    [][/\ \A i \in Ids(db.pedido_itens) :
             /\ i \in Ids(db'.pedido_itens)
             /\ db'.pedido_itens[i] = db.pedido_itens[i]
       /\ \A o \in Ids(db.pedidos) :
             /\ o \in Ids(db'.pedidos)
             /\ db'.pedidos[o].subtotal = db.pedidos[o].subtotal
             /\ db'.pedidos[o].frete = db.pedidos[o].frete
             /\ db'.pedidos[o].desconto = db.pedidos[o].desconto
             /\ db'.pedidos[o].total = db.pedidos[o].total]_vars

\* the stock was changed directly after an order and its item were stored
C27_StockChangedAfterOrder ==
    /\ last.op = "exemploAtualizarEstoque"
    /\ last.ok
    /\ Len(db.pedidos) = 1
    /\ Len(db.pedido_itens) = 1
    /\ Stock(db) # SeedStock - db.pedido_itens[1].quantidade

\* C29: audit identifiers are pairwise distinct.  A committed checkout
\* appends one entry for the order, preceded by one entry for the customer
\* exactly when it inserted the customer; a failed checkout appends none.
C29_CheckoutAuditEntries ==
    /\ [](\A a, b \in Ids(db.audit_logs) :
            a # b => db.audit_logs[a].uuid # db.audit_logs[b].uuid)
    /\ [][last'.op = "checkout"
          => LET n == Len(db.audit_logs)
                 created == Len(db'.usuarios) = Len(db.usuarios) + 1
                 new == SubSeq(db'.audit_logs, n + 1, Len(db'.audit_logs))
                 order == [uuid |-> Len(db'.audit_logs), tabela |-> "pedidos",
                           registro_id |-> last'.id, acao |-> "INSERT",
                           usuario_id |-> db'.pedidos[last'.id].usuario_id]
                 customer == [uuid |-> n + 1, tabela |-> "usuarios",
                              registro_id |-> Len(db'.usuarios),
                              acao |-> "INSERT", usuario_id |-> NoRow]
             IN /\ SubSeq(db'.audit_logs, 1, n) = db.audit_logs
                /\ ~last'.ok => new = <<>>
                /\ (last'.ok /\ created) => new = <<customer, order>>
                /\ (last'.ok /\ ~created) => new = <<order>>]_vars

\* two customers checked out, each leaving a customer and an order entry
C29_TwoNewCustomersAudited ==
    /\ last.op = "checkout"
    /\ last.ok
    /\ Len(db.usuarios) = 2
    /\ Len(db.audit_logs) = 4

\* C30: every order has total = subtotal + frete - desconto and exactly one
\* item, whose subtotal is its quantity times its unit price and equals the
\* order's subtotal.
C30_OrderTotalsConsistent ==
    \A o \in Ids(db.pedidos) :
       /\ db.pedidos[o].total =
            db.pedidos[o].subtotal + db.pedidos[o].frete - db.pedidos[o].desconto
       /\ Cardinality(getOrderItems(db, o)) = 1
       /\ \A i \in getOrderItems(db, o) :
             /\ db.pedido_itens[i].subtotal =
                  db.pedido_itens[i].quantidade * db.pedido_itens[i].preco_unitario
             /\ db.pedido_itens[i].subtotal = db.pedidos[o].subtotal

\* an order for two units is in the store
C30_OrderOfTwoUnits ==
    \E o \in Ids(db.pedidos) :
       /\ db.pedidos[o].subtotal = 2 * ForcedPrice
       /\ \E i \in getOrderItems(db, o) : db.pedido_itens[i].quantidade = 2

\* the quantities of the stored items of a product, added up
ItemQuantity(d, produto) ==
    LET S[n \in 0 .. Len(d.pedido_itens)] ==
            IF n = 0 THEN 0
            ELSE S[n - 1] + (IF d.pedido_itens[n].produto_id = produto
                             THEN d.pedido_itens[n].quantidade ELSE 0)
    IN S[Len(d.pedido_itens)]

\* C31: with checkouts as the only writers of stock, in every committed
\* store the seeded stock less the current stock is the sum of the quantities
\* of the product's order items.
C31_StockConserved ==
    \A p \in Ids(db.produtos) :
       SeedStock - db.produtos[p].estoque = ItemQuantity(db, p)

\* two checkouts committed after overlapping at the payment gateway and
\* took the stock between them
C31_TwoCheckoutsShareStock ==
    /\ Len(db.pedido_itens) = 2
    /\ ItemQuantity(db, 1) = 2
    /\ Stock(db) = SeedStock - 2
    /\ \A r \in Requests : reqs[r].pc = "awaiting"

\* C32: a checkout for a quantity of zero or less fails and leaves the store
\* as it was, so no order and no item is created; and no checkout leaves
\* more stock than it found.
C32_NonPositiveQuantityRefused ==
    [][last'.op = "checkout"
       => /\ Stock(db') <= Stock(db)
          /\ last'.in.quantidade <= 0
             => /\ ~last'.ok
                /\ db' = db]_vars

\* a known customer with a committed order asked for a negative quantity
C32_NegativeQuantityRefused ==
    /\ last.op = "checkout"
    /\ last.in.quantidade < 0
    /\ ~last.ok
    /\ db.pedidos # <<>>
    /\ getUserByEmail(db, last.in.email) # NoRow

\* C33: a checkout with enough stock for a positive quantity, whose email
\* lower-cased and trimmed is the stored email of a customer not deleted and
\* whose cleaned cpf is that customer's, creates no customer and, unless its
\* order number is taken, commits an order of that customer.
C33_NormalisedEmailReusesCustomer ==
    [][\A u \in Live(db) :
          (/\ last'.op = "checkout"
           /\ db.usuarios[u].email = toLowerTrim(last'.in.email)
           /\ db.usuarios[u].cpf = cpfLimpo(last'.in.cpf)
           /\ last'.in.quantidade >= 1
           /\ Stock(db) >= last'.in.quantidade)
          => /\ Len(db'.usuarios) = Len(db.usuarios)
             /\ \/ last'.err = "UNIQUE constraint failed: pedidos.numero_pedido"
                \/ /\ last'.ok
                   /\ db'.pedidos[last'.id].usuario_id = u]_vars

\* C34: the delivery address of every stored order is an address of the
\* order's customer, and a committed checkout leaves the address of its
\* order as the only default address of that customer.
C34_OrderAddressOwnedAndDefault ==
    /\ [](\A o \in Ids(db.pedidos) :
            /\ db.pedidos[o].endereco_id \in Ids(db.enderecos)
            /\ db.enderecos[db.pedidos[o].endereco_id].usuario_id =
                 db.pedidos[o].usuario_id)
    /\ [][(last'.op = "checkout" /\ last'.ok)
          => Defaults(db', db'.pedidos[last'.id].usuario_id) =
               {db'.pedidos[last'.id].endereco_id}]_vars

\* a returning customer's second order went to a new address, which took
\* the default from the address of the first order
C34_ReturningCustomerNewDefault ==
    /\ last.op = "checkout"
    /\ last.ok
    /\ last.id = 2
    /\ db.pedidos[1].usuario_id = db.pedidos[2].usuario_id
    /\ db.pedidos[1].endereco_id # db.pedidos[2].endereco_id
    /\ db.enderecos[db.pedidos[1].endereco_id].padrao = 0
    /\ db.enderecos[db.pedidos[2].endereco_id].padrao = 1

\* C35: every delivery of the payment notification of a stored order leaves
\* the order paid and appends one event from the status found to paid; a
\* delivery for an order already paid leaves the orders as they were and its
\* event records paid -> paid.
C35_RedeliveryKeepsPaidAddsEvent ==
    [][LET o == last'.id
           paid == [pedido_id |-> o, status_anterior |-> "pago",
                    status_novo |-> "pago"]
       IN (last'.op = "webhook" /\ o \in Ids(db.pedidos))
          => /\ last'.http = 200
             /\ db'.pedidos[o].status = "pago"
             /\ db'.pedido_historico =
                  Append(db.pedido_historico,
                         [pedido_id |-> o,
                          status_anterior |-> db.pedidos[o].status,
                          status_novo |-> "pago"])
             /\ db.pedidos[o].status = "pago"
                => /\ db'.pedidos = db.pedidos
                   /\ db'.pedido_historico = Append(db.pedido_historico, paid)]_vars

\* the notification of one order was delivered twice in a row
C35_DeliveredTwice ==
    /\ last.op = "webhook"
    /\ last.id \in Ids(db.pedidos)
    /\ db.pedidos[last.id].status = "pago"
    /\ db.pedido_historico =
         <<[pedido_id |-> last.id, status_anterior |-> "pendente",
            status_novo |-> "pago"],
           [pedido_id |-> last.id, status_anterior |-> "pago",
            status_novo |-> "pago"]>>

\* C36: a customer with five or more failed logins counted is blocked; a
\* login handler that finds the account blocked goes no further, whatever
\* the password; and no login step takes an account out of blocked.
C36_LockoutInvariant ==
    /\ [](\A u \in Ids(db.usuarios) :
            db.usuarios[u].tentativas_login >= BlockAt + 1
            => db.usuarios[u].status = "bloqueado")
    /\ [][(last'.op \in {"login", "loginCompare"})
          => /\ \A u \in Ids(db.usuarios) :
                  db.usuarios[u].status = "bloqueado"
                  => db'.usuarios[u].status = "bloqueado"
             /\ \A r \in Requests :
                  (logins[r].pc = "idle" /\ logins'[r].pc # "idle")
                  => db.usuarios[logins'[r].usuario].status # "bloqueado"]_vars

====
